---------------------------- MODULE Spec2Model ----------------------------
(***************************************************************************)
(* Resume analyzer: text -> parse_text -> extract_features -> scorer.       *)
(*                                                                         *)
(* Strings are sequences of one-character strings, so that the regular     *)
(* expressions, strip(), split(), splitlines() and lower() of the source   *)
(* are computed character by character.  Numbers that the source holds as  *)
(* floats are multiples of 0.5 here and are kept as integers counted in    *)
(* halves (the value 2 stands for 1.0, the value 40 for 20.0).             *)
(***************************************************************************)
EXTENDS Integers, Sequences, FiniteSets, TLC

VARIABLES
    text,        \* input of run_inference_on_text / parse_text
    ents,        \* doc.ents, the entities spaCy reports for text
    modelFile,   \* contents of MODEL_PATH: NoFile or the (model, features) pair
    pc,          \* position of the running function
    parsed,      \* local `parsed` (a record, or an argument drawn by Init)
    feats,       \* local `feats`  (a record, or an argument drawn by Init)
    score,       \* local `score`
    output,      \* value returned to the caller
    exc,         \* exception that reached the caller ("" when none)
    caught,      \* exception handled by run_inference_on_text ("" when none)
    X,           \* vector handed to model.predict by scorer.predict
    lines,       \* parse_experience_block: local `lines`
    i,           \* parse_experience_block: local `i`
    out,         \* parse_experience_block: local `out`
    spans,       \* history: per entry of `out`, the line indices it consumed
    block        \* parse_experience_block: argument block_text

vars == <<text, ents, modelFile, pc, parsed, feats, score, output, exc, caught,
          X, lines, i, out, spans, block>>

-----------------------------------------------------------------------------
(* Strings *)

\* A string literal as a sequence of characters.
Str(s) == [k \in 1..Len(s) |-> SubSeq(s, k, k)]

Digit == {"0", "1", "2", "3", "4", "5", "6", "7", "8", "9"}

DigitVal == [c \in Digit |->
    CASE c = "0" -> 0 [] c = "1" -> 1 [] c = "2" -> 2 [] c = "3" -> 3
      [] c = "4" -> 4 [] c = "5" -> 5 [] c = "6" -> 6 [] c = "7" -> 7
      [] c = "8" -> 8 [] c = "9" -> 9]

UpperSeq == Str("ABCDEFGHIJKLMNOPQRSTUVWXYZ")
LowerSeq == Str("abcdefghijklmnopqrstuvwxyz")
Upper == {UpperSeq[k] : k \in 1..26}
Lower == {LowerSeq[k] : k \in 1..26}

\* Whitespace: what str.strip(), str.split() and \s remove.
Space == {" ", "\t", "\n", "\r"}

Max(S) == CHOOSE m \in S : \A n \in S : n <= m
Min(S) == CHOOSE m \in S : \A n \in S : m <= n

\* str.lower()
LowerOf == [c \in Upper |-> LowerSeq[CHOOSE k \in 1..26 : UpperSeq[k] = c]]
LowerChar(c) == IF c \in Upper THEN LowerOf[c] ELSE c
ToLower(s) == [k \in 1..Len(s) |-> LowerChar(s[k])]

\* s[p:].startswith(w), p counted from 1
StartsAt(s, p, w) ==
    /\ p + Len(w) - 1 <= Len(s)
    /\ \A k \in 1..Len(w) : s[p + k - 1] = w[k]

\* `w in s`
Contains(s, w) == \E p \in 1..(Len(s) - Len(w) + 1) : StartsAt(s, p, w)

\* str.strip(chars)
StripChars(s, C) ==
    LET keep == {k \in 1..Len(s) : s[k] \notin C}
    IN  IF keep = {} THEN <<>> ELSE SubSeq(s, Min(keep), Max(keep))

\* str.strip()
Strip(s) == StripChars(s, Space)

\* str.splitlines(): a line ends at each line boundary; no empty last line.
LineEnd == {"\n", "\r"}
RECURSIVE SplitFrom(_, _)
SplitFrom(s, p) ==
    IF p > Len(s) THEN <<>>
    ELSE LET ends == {q \in p..Len(s) : s[q] \in LineEnd}
             q    == IF ends = {} THEN Len(s) + 1 ELSE Min(ends)
             nxt  == IF q < Len(s) /\ s[q] = "\r" /\ s[q + 1] = "\n"
                     THEN q + 2 ELSE q + 1
         IN  <<SubSeq(s, p, q - 1)>> \o SplitFrom(s, nxt)
Splitlines(s) == SplitFrom(s, 1)

\* len(s.split()): the number of maximal runs of non-whitespace
WordCount(s) ==
    Cardinality({k \in 1..Len(s) :
        s[k] \notin Space /\ (k = 1 \/ s[k - 1] \in Space)})

\* s.split(sep)[0]
SplitFirst(s, sep) ==
    LET at == {p \in 1..(Len(s) - Len(sep) + 1) : StartsAt(s, p, sep)}
    IN  IF at = {} THEN s ELSE SubSeq(s, 1, Min(at) - 1)

\* "\n".join(ls)
RECURSIVE JoinLines(_)
JoinLines(ls) ==
    IF ls = <<>> THEN <<>>
    ELSE IF Len(ls) = 1 THEN ls[1]
    ELSE ls[1] \o <<"\n">> \o JoinLines(Tail(ls))

\* int(ds) of a digit string
RECURSIVE ToInt(_)
ToInt(ds) ==
    IF ds = <<>> THEN 0
    ELSE 10 * ToInt(SubSeq(ds, 1, Len(ds) - 1)) + DigitVal[ds[Len(ds)]]

-----------------------------------------------------------------------------
(* Regular expressions of parser.py and feature_extractor.py *)

DigitsAt(s, p, n) ==
    /\ p >= 1
    /\ p + n - 1 <= Len(s)
    /\ \A k \in 0..(n - 1) : s[p + k] \in Digit

\* The alternatives of DATE_RANGE_RE before \d{4}, in the order the pattern
\* lists them (the pattern is compiled with re.IGNORECASE).
MONTH_ALTS == <<
    Str("jan"), Str("feb"), Str("mar"), Str("apr"), Str("may"), Str("jun"),
    Str("jul"), Str("aug"), Str("sep"), Str("sept"), Str("oct"), Str("nov"),
    Str("dec"), Str("january"), Str("february"), Str("march"), Str("april"),
    Str("may"), Str("june"), Str("july"), Str("august"), Str("september"),
    Str("october"), Str("november"), Str("december") >>

\* [^,\n\r]{0,30}(?:\d{4}) starting at q: the index of the last character
\* matched with the longest gap (the quantifier is greedy), 0 when none.
GapMax == 30
GapStop == {",", "\n", "\r"}
DateTailEnd(s, q) ==
    LET stops == {k \in 0..GapMax : q + k <= Len(s) /\ s[q + k] \in GapStop}
        lim   == IF stops = {} THEN GapMax ELSE Min(stops)
        K     == {k \in 0..lim : DigitsAt(s, q + k, 4)}
    IN  IF K = {} THEN 0 ELSE q + Max(K) + 3

\* Length of alternative a at position p of s, -1 when it does not match.
DateAltLen(s, ls, p, a) ==
    IF a <= Len(MONTH_ALTS)
    THEN (IF StartsAt(ls, p, MONTH_ALTS[a]) THEN Len(MONTH_ALTS[a]) ELSE -1)
    ELSE (IF DigitsAt(s, p, 4) THEN 4 ELSE -1)

\* DATE_RANGE_RE.match at position p: index of the last character, 0 if none.
\* The first alternative that lets the whole pattern match is taken.
DateFirst == Digit \cup {"j", "f", "m", "a", "s", "o", "n", "d"}
DateRangeMatchAt(s, ls, p) ==
    IF ls[p] \notin DateFirst THEN 0
    ELSE LET A == {a \in 1..(Len(MONTH_ALTS) + 1) :
                    /\ DateAltLen(s, ls, p, a) >= 0
                    /\ DateTailEnd(s, p + DateAltLen(s, ls, p, a)) # 0}
         IN  IF A = {} THEN 0
             ELSE DateTailEnd(s, p + DateAltLen(s, ls, p, Min(A)))

\* DATE_RANGE_RE.search(s) from position p on: the leftmost match as
\* [from, to], or [0, 0].
RECURSIVE DateRangeScan(_, _, _)
DateRangeScan(s, ls, p) ==
    IF p > Len(s) THEN [from |-> 0, to |-> 0]
    ELSE LET e == DateRangeMatchAt(s, ls, p)
         IN  IF e = 0 THEN DateRangeScan(s, ls, p + 1)
             ELSE [from |-> p, to |-> e]

DateRangeSearch(s) == DateRangeScan(s, ToLower(s), 1)

\* bool(DATE_RANGE_RE.search(s)), bool(DATE_RANGE_RE.findall(s))
HasDateRange(s) == DateRangeSearch(s).from # 0

\* DATE_RANGE_RE.search(s).group(0), DATE_RANGE_RE.findall(s)[0]
FirstDateRange(s) ==
    LET m == DateRangeSearch(s) IN SubSeq(s, m.from, m.to)

\* DATE_RE.findall(s): the non-overlapping runs of four digits, left to right
RECURSIVE FindYears(_, _)
FindYears(s, p) ==
    IF p + 3 > Len(s) THEN <<>>
    ELSE IF DigitsAt(s, p, 4)
         THEN <<SubSeq(s, p, p + 3)>> \o FindYears(s, p + 4)
         ELSE FindYears(s, p + 1)
DATE_RE_findall(s) == FindYears(s, 1)


\* Number of consecutive characters of class C starting at p.
RECURSIVE RunLen(_, _, _)
RunLen(s, p, C) ==
    IF p > Len(s) \/ s[p] \notin C THEN 0 ELSE 1 + RunLen(s, p + 1, C)

AlNum == Upper \cup Lower \cup Digit
EmailLocal  == AlNum \cup {"_", ".", "+", "-"}
EmailDomain == AlNum \cup {"-"}
EmailTld    == AlNum \cup {"-", "."}

\* EMAIL_RE.match at p: index of the last character, 0 if none.  No class
\* holds the character that has to follow it, so only the longest run of
\* each class can match.
EmailMatchAt(s, p) ==
    LET n1 == RunLen(s, p, EmailLocal)
        a  == p + n1
        n2 == RunLen(s, a + 1, EmailDomain)
        d  == a + 1 + n2
        n3 == RunLen(s, d + 1, EmailTld)
    IN  IF /\ n1 >= 1 /\ a <= Len(s) /\ s[a] = "@"
           /\ n2 >= 1 /\ d <= Len(s) /\ s[d] = "."
           /\ n3 >= 1
        THEN d + n3 ELSE 0

PhoneSep  == Space \cup {"-"}
PhoneTail == Digit \cup Space \cup {"-"}
PhoneTailMin == 6
PhoneTailMax == 12

\* One way through PHONE_RE at p: group 1 taken (g1) with n1 digits and s1
\* separators, group 2 taken (g2) with n2 digits and s2 separators, then the
\* longest tail.  An optional "+", "(" or ")" is taken exactly when it is
\* there: skipping it leaves it to an item that cannot match it.  Index of
\* the last character, 0 when this way fails.
PhoneWayEnd(s, p, w) ==
    LET plus == IF w.g1 /\ p <= Len(s) /\ s[p] = "+" THEN 1 ELSE 0
        a    == p + plus
        ok1  == \/ ~w.g1
                \/ /\ DigitsAt(s, a, w.n1)
                   /\ w.s1 = 1 => (a + w.n1 <= Len(s) /\ s[a + w.n1] \in PhoneSep)
        b    == IF w.g1 THEN a + w.n1 + w.s1 ELSE p
        open == IF w.g2 /\ b <= Len(s) /\ s[b] = "(" THEN 1 ELSE 0
        c    == b + open
        cls  == IF w.g2 /\ c + w.n2 <= Len(s) /\ s[c + w.n2] = ")" THEN 1 ELSE 0
        e    == c + w.n2 + cls
        ok2  == \/ ~w.g2
                \/ /\ DigitsAt(s, c, w.n2)
                   /\ w.s2 = 1 => (e <= Len(s) /\ s[e] \in PhoneSep)
        t    == IF w.g2 THEN e + w.s2 ELSE b
        run  == RunLen(s, t, PhoneTail)
        n    == IF run > PhoneTailMax THEN PhoneTailMax ELSE run
    IN  IF ok1 /\ ok2 /\ run >= PhoneTailMin THEN t + n - 1 ELSE 0

PhoneWays ==
    [g1 : {TRUE}, n1 : 1..4, s1 : {0, 1}, g2 : {TRUE}, n2 : 2..4, s2 : {0, 1}]
    \cup [g1 : {TRUE}, n1 : 1..4, s1 : {0, 1}, g2 : {FALSE}, n2 : {0}, s2 : {0}]
    \cup [g1 : {FALSE}, n1 : {0}, s1 : {0}, g2 : {TRUE}, n2 : 2..4, s2 : {0, 1}]
    \cup [g1 : {FALSE}, n1 : {0}, s1 : {0}, g2 : {FALSE}, n2 : {0}, s2 : {0}]

\* The order in which the backtracking matcher tries the ways: an optional
\* group before its absence, more repetitions before fewer.
PhoneWayRank(w) ==
    LET r1 == IF w.g1 THEN (4 - w.n1) * 2 + (1 - w.s1) ELSE 8
        r2 == IF w.g2 THEN (4 - w.n2) * 2 + (1 - w.s2) ELSE 6
    IN  r1 * 7 + r2

\* PHONE_RE.match at p: index of the last character, 0 if none.
PhoneFirst == PhoneTail \cup {"+", "("}
PhoneMatchAt(s, p) ==
    IF s[p] \notin PhoneFirst THEN 0
    ELSE LET W == {w \in PhoneWays : PhoneWayEnd(s, p, w) # 0}
             R == {PhoneWayRank(w) : w \in W}
         IN  IF W = {} THEN 0
             ELSE PhoneWayEnd(s, p, CHOOSE w \in W : PhoneWayRank(w) = Min(R))

\* [m.group(0) for m in EMAIL_RE.finditer(s)], from position pos on
RECURSIVE EmailsFrom(_, _)
EmailsFrom(s, pos) ==
    IF pos > Len(s) THEN <<>>
    ELSE LET e == EmailMatchAt(s, pos)
         IN  IF e = 0 THEN EmailsFrom(s, pos + 1)
             ELSE <<SubSeq(s, pos, e)>> \o EmailsFrom(s, e + 1)

\* [m.group(0) for m in PHONE_RE.finditer(s)], from position pos on
RECURSIVE PhonesFrom(_, _)
PhonesFrom(s, pos) ==
    IF pos > Len(s) THEN <<>>
    ELSE LET e == PhoneMatchAt(s, pos)
         IN  IF e = 0 THEN PhonesFrom(s, pos + 1)
             ELSE <<SubSeq(s, pos, e)>> \o PhonesFrom(s, e + 1)

\* list(dict.fromkeys(xs)): first occurrences, in order
RECURSIVE Unique(_)
Unique(xs) ==
    IF xs = <<>> THEN <<>>
    ELSE LET init == Unique(SubSeq(xs, 1, Len(xs) - 1))
             last == xs[Len(xs)]
         IN  IF \E k \in 1..Len(init) : init[k] = last
             THEN init ELSE Append(init, last)

-----------------------------------------------------------------------------
(* parser.py *)

SKILLS_SEED == <<
    Str("python"), Str("java"), Str("c++"), Str("c"), Str("tensorflow"),
    Str("pytorch"), Str("scikit-learn"), Str("docker"), Str("kubernetes"),
    Str("aws"), Str("gcp"), Str("azure"), Str("nlp"), Str("computer vision"),
    Str("pandas"), Str("numpy"), Str("sql"), Str("nosql"), Str("react"),
    Str("nodejs"), Str("git"), Str("rest") >>

SECTION_HEADERS == <<
    Str("experience"), Str("work experience"), Str("professional experience"),
    Str("education"), Str("skills"), Str("projects"), Str("certifications"),
    Str("summary"), Str("objective") >>

\* set(m.group(0) for m in EMAIL_RE.finditer(text)); list() of a set has no
\* specified order, so the value is kept as the set.
extract_emails(t) ==
    LET ms == EmailsFrom(t, 1) IN {ms[k] : k \in 1..Len(ms)}

extract_phones(t) ==
    LET ms == PhonesFrom(t, 1)
    IN  Unique([k \in 1..Len(ms) |-> Strip(ms[k])])

\* Code points order the characters the seed list is written in.
CharOrder == Str(" +-abcdefghijklmnopqrstuvwxyz")
Ord(c) == CHOOSE k \in 1..Len(CharOrder) : CharOrder[k] = c

\* a < b for strings
StrLess(a, b) ==
    \E k \in 1..(Len(b)) :
        /\ \A m \in 1..(k - 1) : m <= Len(a) /\ a[m] = b[m]
        /\ \/ k = Len(a) + 1
           \/ k <= Len(a) /\ Ord(a[k]) < Ord(b[k])

\* sorted(S) for a set of strings
RECURSIVE Sorted(_)
Sorted(S) ==
    IF S = {} THEN <<>>
    ELSE LET m == CHOOSE x \in S : \A y \in S \ {x} : StrLess(x, y)
         IN  <<m>> \o Sorted(S \ {m})

extract_skills(t) ==
    LET text_low == ToLower(t)
        found == {SKILLS_SEED[k] : k \in
                    {n \in 1..Len(SKILLS_SEED) :
                        Contains(text_low, ToLower(SKILLS_SEED[n]))}}
    IN  Sorted(found)

\* sections is a dict in insertion order: a sequence of [key, block].
\* sections.setdefault(current, ""); sections[current] += joined buffer
FlushBuffer(sections, current, buffer) ==
    IF buffer = <<>> THEN sections
    ELSE LET add == JoinLines(buffer) \o <<"\n">>
             at  == {k \in 1..Len(sections) : sections[k].key = current}
         IN  IF at = {}
             THEN Append(sections, [key |-> current, block |-> add])
             ELSE [sections EXCEPT ![Min(at)].block = @ \o add]

IsSectionHeader(l, low) ==
    /\ \E h \in 1..Len(SECTION_HEADERS) : Contains(low, SECTION_HEADERS[h])
    /\ WordCount(l) <= 5

\* The loop of split_into_sections from line k on.
RECURSIVE SectionsLoop(_, _, _, _, _)
SectionsLoop(ls, k, sections, current, buffer) ==
    IF k > Len(ls) THEN FlushBuffer(sections, current, buffer)
    ELSE LET l   == ls[k]
             low == Strip(StripChars(ToLower(l), {":"}))
         IN  IF Len(l) = 0
             THEN SectionsLoop(ls, k + 1,
                      FlushBuffer(sections, current, buffer), current, <<>>)
             ELSE IF IsSectionHeader(l, low)
             THEN SectionsLoop(ls, k + 1,
                      FlushBuffer(sections, current, buffer), low, <<>>)
             ELSE SectionsLoop(ls, k + 1, sections, current, Append(buffer, l))

split_into_sections(t) ==
    LET raw == Splitlines(t)
        ls  == [k \in 1..Len(raw) |-> Strip(raw[k])]
    IN  SectionsLoop(ls, 1, <<>>, Str("header"), <<>>)

\* doc.ents is a sequence of [label, start_char, text].
NameWindow == 120
NameMaxWords == 4
PersonEnts(es) ==
    {k \in 1..Len(es) :
        es[k].label = "PERSON" /\ es[k].start_char < NameWindow}

\* doc.text.strip().splitlines()[0] raises IndexError on an empty list.
extract_name_raises(t, es) ==
    PersonEnts(es) = {} /\ Splitlines(Strip(t)) = <<>>

extract_name(t, es) ==
    IF PersonEnts(es) # {} THEN es[Min(PersonEnts(es))].text
    ELSE LET first_line == Splitlines(Strip(t))[1]
         IN  IF WordCount(first_line) <= NameMaxWords
             THEN Strip(first_line) ELSE <<>>

\* lines = [l.strip() for l in block_text.splitlines() if l.strip()]
NonBlank(l) == Strip(l) # <<>>
ExperienceLines(block_text) ==
    LET raw  == Splitlines(block_text)
        kept == SelectSeq(raw, NonBlank)
    IN  [k \in 1..Len(kept) |-> Strip(kept[k])]

\* Indices are counted from 1 here: index k is the source's lines[k - 1].
BulletMinWords == 2

\* The value of j when the inner loop of the dated branch, entered at j, ends.
RECURSIVE DatedStop(_, _)
DatedStop(ls, j) ==
    IF j <= Len(ls) /\ WordCount(ls[j]) > BulletMinWords /\ ~HasDateRange(ls[j])
    THEN DatedStop(ls, j + 1) ELSE j

\* The value of j when the inner loop of the look-ahead branch, entered at j, ends.
RECURSIVE LookaheadStop(_, _)
LookaheadStop(ls, j) ==
    IF j <= Len(ls) /\ ~HasDateRange(ls[j])
    THEN LookaheadStop(ls, j + 1) ELSE j

IsDated(ls, k) == HasDateRange(ls[k])
IsLookahead(ls, k) ==
    ~IsDated(ls, k) /\ k + 1 <= Len(ls) /\ HasDateRange(ls[k + 1])

\* One iteration of the while loop at index k: the entry appended, the new
\* value of i, and where the entry's bullets were read from.
DatedEntry(ls, k) ==
    LET j == DatedStop(ls, k + 1)
    IN  [entry |-> [title     |-> Strip(SplitFirst(ls[k], Str(" - "))),
                    date_text |-> Strip(FirstDateRange(ls[k])),
                    bullets   |-> SubSeq(ls, k + 1, j - 1)],
         next  |-> j,
         span  |-> [kind |-> "dated", first |-> k, bfrom |-> k + 1, last |-> j - 1]]

\* LookaheadEntry whose inner loop starts at the date line, j = i + 1.
LookaheadEntryFromDate(ls, k) ==
    LET j == LookaheadStop(ls, k + 1)
    IN  [entry |-> [title     |-> Strip(ls[k]),
                    date_text |-> Strip(FirstDateRange(ls[k + 1])),
                    bullets   |-> SubSeq(ls, k + 1, j - 1)],
         next  |-> j,
         span  |-> [kind |-> "lookahead", first |-> k, bfrom |-> k + 2, last |-> j - 1]]

LookaheadEntry(ls, k) ==
    LET j == LookaheadStop(ls, k + 2)
    IN  [entry |-> [title     |-> Strip(ls[k]),
                    date_text |-> Strip(FirstDateRange(ls[k + 1])),
                    bullets   |-> SubSeq(ls, k + 2, j - 1)],
         next  |-> j,
         span  |-> [kind |-> "lookahead", first |-> k, bfrom |-> k + 2, last |-> j - 1]]

PlainEntry(ls, k) ==
    [entry |-> [title |-> ls[k], date_text |-> <<>>, bullets |-> <<>>],
     next  |-> k + 1,
     span  |-> [kind |-> "plain", first |-> k, bfrom |-> k + 1, last |-> k]]

LoopBody(ls, k) ==
    IF IsDated(ls, k) THEN DatedEntry(ls, k)
    ELSE IF IsLookahead(ls, k) THEN LookaheadEntry(ls, k)
    ELSE PlainEntry(ls, k)

RECURSIVE ExperienceFrom(_, _)
ExperienceFrom(ls, k) ==
    IF k > Len(ls) THEN <<>>
    ELSE LET b == LoopBody(ls, k)
         IN  <<b.entry>> \o ExperienceFrom(ls, b.next)

parse_experience_block(block_text) ==
    ExperienceFrom(ExperienceLines(block_text), 1)

\* experience_blocks.extend(...) over the sections, in order
RECURSIVE ExperienceOf(_)
ExperienceOf(sections) ==
    IF sections = <<>> THEN <<>>
    ELSE LET s == sections[1]
         IN  (IF Contains(s.key, Str("experience")) \/ Contains(s.key, Str("work"))
              THEN parse_experience_block(s.block) ELSE <<>>)
             \o ExperienceOf(Tail(sections))

RECURSIVE EducationOf(_)
EducationOf(sections) ==
    IF sections = <<>> THEN <<>>
    ELSE LET s == sections[1]
         IN  (IF Contains(s.key, Str("education"))
              THEN ExperienceLines(s.block) ELSE <<>>)
             \o EducationOf(Tail(sections))

parse_text_raises(t, es) == extract_name_raises(t, es)

parse_text(t, es) ==
    LET sections == split_into_sections(t)
    IN  [name       |-> extract_name(t, es),
         emails     |-> extract_emails(t),
         phones     |-> extract_phones(t),
         skills     |-> extract_skills(t),
         experience |-> ExperienceOf(sections),
         education  |-> EducationOf(sections),
         sections   |-> [k \in 1..Len(sections) |-> sections[k].key],
         raw_text   |-> t]

-----------------------------------------------------------------------------
(* feature_extractor.py *)

\* d.get(key, default)
Get(d, key, default) == IF key \in DOMAIN d THEN d[key] ELSE default

RECURSIVE SumSeq(_)
SumSeq(xs) == IF xs = <<>> THEN 0 ELSE xs[1] + SumSeq(Tail(xs))

\* EntryYears without max(0, .): a range that runs backwards counts negative.
EntryYearsNoClamp(exp) ==
    LET found == DATE_RE_findall(Get(exp, "date_text", <<>>))
    IN  IF Len(found) >= 2 THEN <<ToInt(found[2]) - ToInt(found[1])>>
        ELSE IF Len(found) = 1 THEN <<1>>
        ELSE <<>>

\* EntryYears taking the last year found, found[-1], as the end of the range.
EntryYearsLastYear(exp) ==
    LET found == DATE_RE_findall(Get(exp, "date_text", <<>>))
    IN  IF Len(found) >= 2
        THEN LET d == ToInt(found[Len(found)]) - ToInt(found[1])
             IN  <<IF d > 0 THEN d ELSE 0>>
        ELSE IF Len(found) = 1 THEN <<1>>
        ELSE <<>>

\* What one experience entry appends to `years`.
EntryYears(exp) ==
    LET found == DATE_RE_findall(Get(exp, "date_text", <<>>))
    IN  IF Len(found) >= 2
        THEN LET start == ToInt(found[1])
                 end   == ToInt(found[2])
             IN  <<IF end - start > 0 THEN end - start ELSE 0>>
        ELSE IF Len(found) = 1 THEN <<1>>
        ELSE <<>>

RECURSIVE YearsOf(_)
YearsOf(exps) ==
    IF exps = <<>> THEN <<>> ELSE EntryYears(exps[1]) \o YearsOf(Tail(exps))

\* sum(len(exp.get("bullets", [])) for exp in parsed.get("experience", []))
RECURSIVE BulletsOf(_)
BulletsOf(exps) ==
    IF exps = <<>> THEN 0
    ELSE Len(Get(exps[1], "bullets", <<>>)) + BulletsOf(Tail(exps))

\* FallbackYears without the cap of 20.0.
FallbackYearsNoCap(bullets) == 2 + bullets

\* min(1.0 + bullets * 0.5, 20.0), in halves
FallbackYears(bullets) ==
    IF 2 + bullets < 40 THEN 2 + bullets ELSE 40

\* In halves.
estimate_years_experience(p) ==
    LET exps  == Get(p, "experience", <<>>)
        years == YearsOf(exps)
    IN  IF years = <<>> THEN FallbackYears(BulletsOf(exps))
        ELSE 2 * SumSeq(years)

count_skills(p) == Len(Get(p, "skills", <<>>))

\* In halves: 2.0 per section up to 5, 3.0 for an email, 2.0 for a phone,
\* 0.5 per bullet up to 10.
formatting_score(p) ==
    LET n_sections == Len(Get(p, "sections", <<>>))
        bullets    == BulletsOf(Get(p, "experience", <<>>))
    IN  (IF n_sections < 5 THEN n_sections ELSE 5) * 4
        + (IF Get(p, "emails", {}) # {} THEN 6 ELSE 0)
        + (IF Get(p, "phones", <<>>) # <<>> THEN 4 ELSE 0)
        + (IF bullets < 10 THEN bullets ELSE 10)

extract_features(p) ==
    [years_exp            |-> estimate_years_experience(p),
     skill_count          |-> count_skills(p),
     format_score         |-> formatting_score(p),
     num_experience_items |-> Len(Get(p, "experience", <<>>))]

-----------------------------------------------------------------------------
(* scorer.py *)

\* None is the empty sequence, a value v is <<v>>.
None == <<>>
Some(v) == <<v>>

NoFile == [exists |-> FALSE]

\* `features` of train(), stored beside the model
FEATURE_NAMES ==
    <<"years_exp", "skill_count", "format_score", "num_experience_items">>

\* The estimators train() builds.
ModelTypes == {"RandomForestClassifier", "LogisticRegression"}

\* HasPredictProba asking for an attribute no estimator has.
HasPredictProbaMisspelt(model) == model.type \in {}

\* hasattr(model, "predict_proba")
HasPredictProba(model) == model.type \in ModelTypes

\* X = [features.get(f, 0) for f in feature_list]
FeatureVector(features, feature_list) ==
    [k \in 1..Len(feature_list) |-> Get(features, feature_list[k], 0)]

\* What scorer.predict returns for the label and the largest class
\* probability (in percent) the model answers with.
PredictResult(model, label, prob) ==
    [label      |-> Some(label),
     confidence |-> IF HasPredictProba(model) THEN Some(prob) ELSE None]

-----------------------------------------------------------------------------
(* predict.py *)

\* MissingModelScore with a default label in place of None.
MissingModelScoreDefault == [label |-> Some(0), confidence |-> None]

\* score of the except FileNotFoundError clause
MissingModelScore == [label |-> None, confidence |-> None]

RunOutput(p, f, sc) == [parsed |-> p, features |-> f, score |-> sc]

-----------------------------------------------------------------------------
(* Inputs *)

MaxTextLines  == 3    \* lines of a resume text
MaxBlockLines == 4    \* lines of an experience block
MaxEntries    == 2    \* experience entries of a parsed record
MaxBullets    == 38   \* bullets of one experience entry
MaxLabel      == 1    \* labels of the training data are 0..MaxLabel

\* All sequences over pool of length at most n.
SeqsUpTo(pool, n) == UNION {[1..k -> pool] : k \in 0..n}

TextLinePool == {
    <<>>,
    Str("Alice B | a@b.co"),
    Str("Experience"),
    Str("Eng - Acme Feb 2019 - Sep 2022"),
    Str("- Built models in python") }

Texts == {JoinLines(ls) : ls \in SeqsUpTo(TextLinePool, MaxTextLines)}

\* What the entity recogniser may report: nothing, or one entity on the
\* first word of the text, as a PERSON or as something else.
EntChoices(t) ==
    LET at == {p \in 1..Len(t) : t[p] \notin Space}
    IN  IF at = {} THEN {<<>>}
        ELSE LET p == Min(at)
                 w == SubSeq(t, p, p + RunLen(t, p, AlNum \cup {".", "@", "-"}) - 1)
             IN  {<<>>} \cup
                 {<<[label |-> lab, start_char |-> p - 1, text |-> w]>> :
                     lab \in {"PERSON", "ORG"}}

BlockLinePool == {
    <<>>,
    Str("Eng - Acme Feb 2019 - Sep 2022"),
    Str("2018 - 2020"),
    Str("- Built ML models"),
    Str(" Research Intern ") }

Blocks == {JoinLines(ls) : ls \in SeqsUpTo(BlockLinePool, MaxBlockLines)}

DateTextPool == {
    <<>>,
    Str("Feb 2019 - Sep 2022"),
    Str("Sep 2022 - Feb 2019"),
    Str("Mar 2021"),
    Str("120192021") }

BulletList(n) == [k \in 1..n |-> Str("-")]

EntryPool ==
    {[title |-> Str("Eng"), date_text |-> d, bullets |-> BulletList(n)] :
        d \in DateTextPool, n \in {0, 1, MaxBullets}}
    \cup {[title |-> Str("Eng"), bullets |-> BulletList(1)],
          [title |-> Str("Eng"), date_text |-> Str("2015 to 2017, 2020")]}

RecordPool == {
    [name |-> Str("Alice B"), emails |-> {Str("a@b.co")},
     phones |-> <<Str("9876543210")>>, skills |-> <<Str("aws"), Str("c")>>,
     education |-> <<>>, raw_text |-> <<>>,
     sections |-> <<Str("header"), Str("experience"), Str("education"),
                    Str("skills"), Str("projects"), Str("summary")>>],
    [name |-> <<>>, emails |-> {}, phones |-> <<>>, skills |-> <<>>,
     education |-> <<>>, raw_text |-> <<>>,
     sections |-> <<Str("header")>>] }

ParsedKeys == {"name", "emails", "phones", "skills", "experience",
               "education", "sections", "raw_text"}

KeySets == {
    ParsedKeys,
    ParsedKeys \ {"experience"},
    ParsedKeys \ {"skills"},
    ParsedKeys \ {"sections"},
    ParsedKeys \ {"emails", "phones"},
    {"name", "education", "raw_text"} }

\* The parsed records extract_features is applied to.
FeatureInputs ==
    {[k \in K |-> IF k = "experience" THEN e ELSE r[k]] :
        K \in KeySets, r \in RecordPool, e \in SeqsUpTo(EntryPool, MaxEntries)}

\* The feature dicts scorer.predict is applied to.
FeatureDicts ==
    UNION {[K -> {0, 3}] : K \in SUBSET {FEATURE_NAMES[k] : k \in 1..4}}

LabelSets == (SUBSET (0..MaxLabel)) \ {{}}

\* (model, features) as train() dumps it.  LogisticRegression does not fit
\* data of a single class.
TrainedFiles ==
    {[exists |-> TRUE, model |-> [type |-> ty, classes |-> cls],
      features |-> FEATURE_NAMES] :
        ty \in ModelTypes, cls \in LabelSets} \
    {f \in [exists : {TRUE}, model : [type : ModelTypes, classes : LabelSets],
            features : {FEATURE_NAMES}] :
        f.model.type = "LogisticRegression" /\ Cardinality(f.model.classes) < 2}

\* The largest class probability of a model with the given classes, in percent.
ProbPool == {50, 75, 100}
Probabilities(classes) == {q \in ProbPool : q * Cardinality(classes) >= 100}

-----------------------------------------------------------------------------
(* State machines *)

\* scorer.train(): MODEL_PATH is written.  Training shares no state with
\* parsing and feature extraction, so the one place where it is interleaved
\* is before scorer.predict looks for the file.
Train ==
    /\ pc \in {"features", "score_start"}
    /\ ~modelFile.exists
    /\ modelFile' \in TrainedFiles
    /\ UNCHANGED <<text, ents, pc, parsed, feats, score, output, exc, caught,
                   X, lines, i, out, spans, block>>

\* run_inference_on_text: parsed = parse_text(text)
ParseText ==
    /\ pc = "start"
    /\ ~parse_text_raises(text, ents)
    /\ parsed' = parse_text(text, ents)
    /\ pc' = "parsed"
    /\ UNCHANGED <<text, ents, modelFile, feats, score, output, exc, caught,
                   X, lines, i, out, spans, block>>

\* parse_text raises: the IndexError of extract_name reaches the caller.
ParseTextRaise ==
    /\ pc = "start"
    /\ parse_text_raises(text, ents)
    /\ exc' = "IndexError"
    /\ pc' = "raised"
    /\ UNCHANGED <<text, ents, modelFile, parsed, feats, score, output, caught,
                   X, lines, i, out, spans, block>>

\* run_inference_on_text: feats = extract_features(parsed)
ExtractFeatures ==
    /\ pc = "parsed"
    /\ feats' = extract_features(parsed)
    /\ pc' = "features"
    /\ UNCHANGED <<text, ents, modelFile, parsed, score, output, exc, caught,
                   X, lines, i, out, spans, block>>

\* scorer.predict(features) with a model file: the value it returns
Predict(to) ==
    /\ modelFile.exists
    /\ \E label \in modelFile.model.classes :
       \E prob \in Probabilities(modelFile.model.classes) :
          score' = PredictResult(modelFile.model, label, prob)
    /\ X' = FeatureVector(feats, modelFile.features)
    /\ pc' = to

\* run_inference_on_text: score = scorer_predict(feats)
Score ==
    /\ pc = "features"
    /\ Predict("scored")
    /\ UNCHANGED <<text, ents, modelFile, parsed, feats, output, exc, caught,
                   lines, i, out, spans, block>>

\* run_inference_on_text: load_model raises FileNotFoundError, caught
ScoreMissingModel ==
    /\ pc = "features"
    /\ ~modelFile.exists
    /\ caught' = "FileNotFoundError"
    /\ score' = MissingModelScore
    /\ pc' = "scored"
    /\ UNCHANGED <<text, ents, modelFile, parsed, feats, output, exc, X,
                   lines, i, out, spans, block>>

\* run_inference_on_text: return output
Return ==
    /\ pc = "scored"
    /\ output' = RunOutput(parsed, feats, score)
    /\ pc' = "done"
    /\ UNCHANGED <<text, ents, modelFile, parsed, feats, score, exc, caught,
                   X, lines, i, out, spans, block>>

Init ==
    /\ text \in Texts
    /\ ents \in EntChoices(text)
    /\ pc = "start"
    /\ modelFile = NoFile
    /\ parsed = <<>> /\ feats = <<>> /\ score = <<>> /\ output = <<>>
    /\ exc = "" /\ caught = "" /\ X = <<>>
    /\ lines = <<>> /\ i = 0 /\ out = <<>> /\ spans = <<>> /\ block = <<>>

Next ==
    \/ Train
    \/ ParseText
    \/ ParseTextRaise
    \/ ExtractFeatures
    \/ Score
    \/ ScoreMissingModel
    \/ Return

Spec == Init /\ [][Next]_vars

-----------------------------------------------------------------------------
(* extract_features applied to a parsed record *)

FeatInit ==
    /\ parsed \in FeatureInputs
    /\ pc = "feat_start"
    /\ text = <<>> /\ ents = <<>> /\ modelFile = NoFile
    /\ feats = <<>> /\ score = <<>> /\ output = <<>>
    /\ exc = "" /\ caught = "" /\ X = <<>>
    /\ lines = <<>> /\ i = 0 /\ out = <<>> /\ spans = <<>> /\ block = <<>>

FeatExtract ==
    /\ pc = "feat_start"
    /\ feats' = extract_features(parsed)
    /\ pc' = "feat_done"
    /\ UNCHANGED <<text, ents, modelFile, parsed, score, output, exc, caught,
                   X, lines, i, out, spans, block>>

FeatNext == FeatExtract

FeatSpec == FeatInit /\ [][FeatNext]_vars

-----------------------------------------------------------------------------
(* scorer.predict applied to a feature dict *)

ScoreInit ==
    /\ feats \in FeatureDicts
    /\ pc = "score_start"
    /\ text = <<>> /\ ents = <<>> /\ modelFile = NoFile
    /\ parsed = <<>> /\ score = <<>> /\ output = <<>>
    /\ exc = "" /\ caught = "" /\ X = <<>>
    /\ lines = <<>> /\ i = 0 /\ out = <<>> /\ spans = <<>> /\ block = <<>>

\* predict() returns
PredictReturn ==
    /\ pc = "score_start"
    /\ Predict("score_done")
    /\ UNCHANGED <<text, ents, modelFile, parsed, feats, output, exc, caught,
                   lines, i, out, spans, block>>

\* load_model() raises FileNotFoundError, which predict() lets through
PredictRaise ==
    /\ pc = "score_start"
    /\ ~modelFile.exists
    /\ exc' = "FileNotFoundError"
    /\ pc' = "score_raised"
    /\ UNCHANGED <<text, ents, modelFile, parsed, feats, score, output, caught,
                   X, lines, i, out, spans, block>>

ScoreNext ==
    \/ Train
    \/ PredictReturn
    \/ PredictRaise

ScoreSpec == ScoreInit /\ [][ScoreNext]_vars

-----------------------------------------------------------------------------
(* parse_experience_block, one loop iteration per step *)

ExpInit ==
    /\ block \in Blocks
    /\ pc = "exp_start"
    /\ text = <<>> /\ ents = <<>> /\ modelFile = NoFile
    /\ parsed = <<>> /\ feats = <<>> /\ score = <<>> /\ output = <<>>
    /\ exc = "" /\ caught = "" /\ X = <<>>
    /\ lines = <<>> /\ i = 0 /\ out = <<>> /\ spans = <<>>

\* out = []; lines = [...]; i = 0
ExpStart ==
    /\ pc = "exp_start"
    /\ lines' = ExperienceLines(block)
    /\ i' = 1
    /\ out' = <<>>
    /\ spans' = <<>>
    /\ pc' = "exp_loop"
    /\ UNCHANGED <<text, ents, modelFile, parsed, feats, score, output, exc,
                   caught, X, block>>

\* One iteration of `while i < len(lines)` taking the given branch.
ExpIterate(b) ==
    /\ out' = Append(out, b.entry)
    /\ spans' = Append(spans, b.span)
    /\ i' = b.next
    /\ UNCHANGED <<text, ents, modelFile, pc, parsed, feats, score, output,
                   exc, caught, X, lines, block>>

\* the line holds a date range
ExpDated ==
    /\ pc = "exp_loop" /\ i <= Len(lines)
    /\ IsDated(lines, i)
    /\ ExpIterate(DatedEntry(lines, i))

\* the next line holds a date range
ExpLookahead ==
    /\ pc = "exp_loop" /\ i <= Len(lines)
    /\ IsLookahead(lines, i)
    /\ ExpIterate(LookaheadEntry(lines, i))

\* otherwise
ExpPlain ==
    /\ pc = "exp_loop" /\ i <= Len(lines)
    /\ ~IsDated(lines, i) /\ ~IsLookahead(lines, i)
    /\ ExpIterate(PlainEntry(lines, i))

\* return out
ExpReturn ==
    /\ pc = "exp_loop" /\ i > Len(lines)
    /\ output' = out
    /\ pc' = "exp_done"
    /\ UNCHANGED <<text, ents, modelFile, parsed, feats, score, exc, caught,
                   X, lines, i, out, spans, block>>

ExpNext ==
    \/ ExpStart
    \/ ExpDated
    \/ ExpLookahead
    \/ ExpPlain
    \/ ExpReturn

ExpSpec == ExpInit /\ [][ExpNext]_vars

-----------------------------------------------------------------------------
(* Claims *)

AfterParse == {"parsed", "features", "scored", "done"}

\* C1: parse_text returns for every input string, the empty string and text
\* of blank lines included, without raising: no exception reaches the caller,
\* and the record returned has exactly the keys name, emails, phones, skills,
\* experience, education, sections and raw_text, raw_text being the input.
C1_ParseTextTotal ==
    /\ pc # "raised"
    /\ exc = ""
    /\ pc \in AfterParse =>
        /\ DOMAIN parsed = ParsedKeys
        /\ parsed.raw_text = text

\* C2: when the scorer raises FileNotFoundError for want of a model file, no
\* exception reaches the caller of run_inference_on_text, and the output
\* holds the parsed record, the features computed from it, and the score
\* {label: None, confidence: None}.
C2_MissingModelHandled ==
    /\ exc # "FileNotFoundError"
    /\ caught = "FileNotFoundError" =>
        /\ exc = ""
        /\ pc \in {"scored", "done"}
        /\ pc = "done" =>
            /\ DOMAIN output = {"parsed", "features", "score"}
            /\ output.parsed = parse_text(text, ents)
            /\ output.features = extract_features(output.parsed)
            /\ output.score.label = None
            /\ output.score.confidence = None

\* C2 witness: a run over a text with an experience entry returned although
\* the model file was missing.
C2_Witness ==
    /\ pc = "done"
    /\ caught = "FileNotFoundError"
    /\ ~modelFile.exists
    /\ output.parsed.experience # <<>>
    /\ output.features.num_experience_items > 0

FeatureKeys ==
    {"years_exp", "skill_count", "format_score", "num_experience_items"}

\* C3: for every parsed record, one without the experience, skills,
\* sections, emails or phones keys included, extract_features returns exactly
\* the four keys years_exp, skill_count, format_score, num_experience_items,
\* each with a number that is at least 0.
C3_FeatureVectorShape ==
    pc = "feat_done" =>
        /\ DOMAIN feats = FeatureKeys
        /\ \A k \in FeatureKeys : feats[k] \in Int /\ feats[k] >= 0

\* C3 witness: features of a record that has none of the five keys.
C3_Witness ==
    /\ pc = "feat_done"
    /\ DOMAIN parsed \cap {"experience", "skills", "sections", "emails", "phones"} = {}
    /\ feats = [years_exp |-> 2, skill_count |-> 0, format_score |-> 0,
                num_experience_items |-> 0]

\* C4: with a trained model present, scorer.predict returns an integer label
\* and a confidence that is not None (and does not raise), and the vector
\* given to the model has one entry per stored feature name, in the stored
\* order, 0 standing for a feature the input lacks.
C4_PredictResult ==
    /\ pc = "score_raised" => ~modelFile.exists
    /\ pc = "score_done" =>
        /\ modelFile.exists
        /\ Len(score.label) = 1
        /\ score.label[1] \in Int
        /\ score.confidence # None
        /\ Len(X) = Len(modelFile.features)
        /\ \A k \in 1..Len(X) :
            LET f == modelFile.features[k]
            IN  /\ f \in DOMAIN feats => X[k] = feats[f]
                /\ f \notin DOMAIN feats => X[k] = 0

\* C4 witness: a prediction for an input that has years_exp and lacks
\* skill_count.
C4_Witness ==
    /\ pc = "score_done"
    /\ "years_exp" \in DOMAIN feats /\ feats.years_exp = 3
    /\ "skill_count" \notin DOMAIN feats
    /\ X[1] = 3 /\ X[2] = 0
    /\ score.confidence # None

\* The positions at which four digits stand in the date_text of an entry.
YearPositions(e) ==
    LET dt == Get(e, "date_text", <<>>)
    IN  {p \in 1..Len(dt) : DigitsAt(dt, p, 4)}

HasYear(e) == YearPositions(e) # {}

\* What the entry counts for: the first year is the leftmost four digits,
\* the second the leftmost four digits after it.
YearsCounted(e) ==
    LET dt == Get(e, "date_text", <<>>)
        P  == YearPositions(e)
    IN  IF P = {} THEN 0
        ELSE LET p1 == Min(P)
                 P2 == {p \in P : p >= p1 + 4}
             IN  IF P2 = {} THEN 1
                 ELSE LET first  == ToInt(SubSeq(dt, p1, p1 + 3))
                          second == ToInt(SubSeq(dt, Min(P2), Min(P2) + 3))
                      IN  IF second - first > 0 THEN second - first ELSE 0

Experience == Get(parsed, "experience", <<>>)

TotalYearsCounted ==
    SumSeq([k \in 1..Len(Experience) |-> YearsCounted(Experience[k])])

TotalBullets ==
    SumSeq([k \in 1..Len(Experience) |->
                Len(Get(Experience[k], "bullets", <<>>))])

SomeYear == \E k \in 1..Len(Experience) : HasYear(Experience[k])

\* C5: when the date_text of at least one experience entry holds a 4-digit
\* year, years_exp is the sum over all entries of max(0, second year - first
\* year) for an entry with two or more years, 1 for an entry with one year
\* and 0 for an entry with none; no entry counts negative.  (years_exp is
\* kept in halves.)
C5_YearsFromRanges ==
    (pc = "feat_done" /\ SomeYear) =>
        /\ feats.years_exp = 2 * TotalYearsCounted
        /\ \A k \in 1..Len(Experience) : YearsCounted(Experience[k]) >= 0

\* C5 witness: a range that runs backwards beside an entry with three years.
C5_Witness ==
    /\ pc = "feat_done"
    /\ Len(Experience) = 2
    /\ Get(Experience[1], "date_text", <<>>) = Str("Sep 2022 - Feb 2019")
    /\ Get(Experience[2], "date_text", <<>>) = Str("2015 to 2017, 2020")
    /\ feats.years_exp = 4

\* C6: the bullet-count fallback is used exactly when no entry's date_text
\* holds a 4-digit year: years_exp is then min(1 + 0.5 * total bullets, 20),
\* which lies between 1 and 20 and is 1 when there are no entries; with a
\* year somewhere it is the sum of the ranges.  (years_exp is kept in halves.)
C6_BulletFallback ==
    pc = "feat_done" =>
        /\ ~SomeYear =>
            /\ feats.years_exp =
                 (IF 2 + TotalBullets <= 40 THEN 2 + TotalBullets ELSE 40)
            /\ feats.years_exp >= 2 /\ feats.years_exp <= 40
            /\ Experience = <<>> => feats.years_exp = 2
        /\ SomeYear => feats.years_exp = 2 * TotalYearsCounted

\* C6 witness: more bullets than the cap of 20 years lets count.
C6_Witness ==
    /\ pc = "feat_done"
    /\ Experience # <<>>
    /\ ~SomeYear
    /\ 2 + TotalBullets > 40
    /\ feats.years_exp = 40

\* The lines of the block as splitlines() gives them, blank ones included.
RawLines == Splitlines(block)

\* Index in RawLines of the k-th line that is not blank.
RawIndex(k) ==
    CHOOSE r \in 1..Len(RawLines) :
        /\ NonBlank(RawLines[r])
        /\ Cardinality({q \in 1..r : NonBlank(RawLines[q])}) = k

\* The lines after the title line up to a blank line, the next line with a
\* date range, or the end of the block.
BulletsUpToBlankOrDate(k) ==
    LET r    == RawIndex(k)
        S    == {q \in (r + 1)..Len(RawLines) :
                    ~NonBlank(RawLines[q]) \/ HasDateRange(RawLines[q])}
        stop == IF S = {} THEN Len(RawLines) + 1 ELSE Min(S)
    IN  [q \in 1..(stop - r - 1) |-> Strip(RawLines[r + q])]

InLoop == pc \in {"exp_loop", "exp_done"}

\* C7: the bullets of an entry whose title line holds a date range are the
\* lines that follow it up to a blank line, the next line holding a date
\* range, or the end of the block: each of them, in order.
C7_BulletsUntilBlankOrDate ==
    InLoop =>
        \A e \in 1..Len(out) :
            spans[e].kind = "dated" =>
                out[e].bullets = BulletsUpToBlankOrDate(spans[e].first)

\* Every line read so far belongs to exactly one entry, as its title line,
\* its looked-ahead date line or one of its bullets, and the entries follow
\* the order of the lines.
LinesConsumedOnce ==
    InLoop =>
        /\ Len(spans) = Len(out)
        /\ Len(out) <= Len(lines)
        /\ i = (IF out = <<>> THEN 1 ELSE spans[Len(out)].last + 1)
        /\ i <= Len(lines) + 1
        /\ \A e \in 1..Len(out) :
            LET sp == spans[e]
            IN  /\ sp.first = (IF e = 1 THEN 1 ELSE spans[e - 1].last + 1)
                /\ sp.bfrom = sp.first + (IF sp.kind = "lookahead" THEN 2 ELSE 1)
                /\ sp.last >= sp.bfrom - 1
                /\ sp.last <= Len(lines)
                /\ out[e].bullets = SubSeq(lines, sp.bfrom, sp.last)
        /\ pc = "exp_done" =>
            /\ lines = ExperienceLines(block)
            /\ i = Len(lines) + 1
            /\ output = out
            /\ \A e \in 1..Len(out) :
                LET sp == spans[e]
                IN  /\ sp.kind = "plain" => out[e].title = lines[sp.first]
                    /\ sp.kind = "lookahead" =>
                        /\ out[e].title = lines[sp.first]
                        /\ out[e].date_text = FirstDateRange(lines[sp.first + 1])
                    /\ sp.kind = "dated" =>
                        out[e].date_text = FirstDateRange(lines[sp.first])

\* C8: parse_experience_block terminates on every block, the line index
\* growing with every loop iteration, and consumes every non-blank line once:
\* each is the title line, the looked-ahead date line or a bullet of exactly
\* one entry, so there are at most as many entries as non-blank lines, in
\* line order.  Termination is stated by its variant: every step taken in
\* the loop either raises i, which stays at most len(lines) + 1, or returns,
\* which it does once i has passed the last line.
C8_TerminatesConsumingOnce ==
    /\ []LinesConsumedOnce
    /\ [][pc = "exp_loop" =>
            \/ pc' = "exp_loop" /\ i <= Len(lines) /\ i' > i /\ i' <= Len(lines) + 1
            \/ pc' = "exp_done" /\ i > Len(lines)]_vars

\* C8 witness: a block with a blank line parsed into a look-ahead entry
\* followed by a dated entry.
C8_Witness ==
    /\ pc = "exp_done"
    /\ Len(RawLines) > Len(lines)
    /\ Len(out) = 2
    /\ spans[1].kind = "lookahead"
    /\ spans[2].kind = "dated"

=============================================================================
